---- MODULE Spec2Model ----
(***************************************************************************)
(* Deployment-folder model of cytomine-installer                           *)
(* (cytomine_installer/deployment/deployment_folders.py).                  *)
(*                                                                         *)
(* A path is a sequence of path components; the filesystem is a function   *)
(* from file paths to file contents plus a set of directory paths.         *)
(* ServerFolder.deploy_files / clean_generated_files are operators on      *)
(* that filesystem; DeploymentFolder.__init__ is a sequence of steps.      *)
(***************************************************************************)
EXTENDS Integers, Sequences, FiniteSets, TLC

VARIABLES
  files,            \* filesystem: file path -> content
  dirs,             \* filesystem: set of directory paths
  server_name,      \* ServerFolder._server_name
  services,         \* ServerFolder._docker_compose_file.services (in order)
  envs,             \* ServerFolder._envs, the shared environment store
  history,          \* the calls made so far: <<[op, target, result], ...>>
  prev,             \* the filesystem before the last call
  fs0,              \* the filesystem at construction of the ServerFolder
  pc,               \* DeploymentFolder.__init__: position in the constructor
  root,             \* DeploymentFolder.__init__: content of the root directory
  args,             \* DeploymentFolder.__init__: ignored_dirs and the allow list
  merge_config,     \* DeploymentFolder._merge_config (servers it declares)
  subdirs,          \* DeploymentFolder._subdirs
  single_server,    \* DeploymentFolder._single_server
  server_folders,   \* DeploymentFolder._server_folders: name -> directory
  error             \* the exception DeploymentFolder.__init__ raised, if any

vars == <<files, dirs, server_name, services, envs, history, prev, fs0,
          pc, root, args, merge_config, subdirs, single_server,
          server_folders, error>>

serverVars == <<files, dirs, server_name, services, envs, history, prev, fs0>>
folderVars == <<pc, root, args, merge_config, subdirs, single_server,
                server_folders, error>>

----------------------------------------------------------------------------
(* Bounds *)

\* number of deploy_files / clean_generated_files calls in one behaviour
MaxOps == 2

----------------------------------------------------------------------------
(* Names fixed by the program *)

DOCKER_COMPOSE_FILENAME == "docker-compose.yml"
DOCKER_COMPOSE_OVERRIDE_FILENAME == "docker-compose.override.yml"
DOTENV_FILENAME == ".env"
configs_folder == "configs"
envs_folder == "envs"
configs_mount_point == "/cm_configs"
SERVER_DEFAULT == "default"
working_config_filename == "cytomine.yml"
template_config_filename == "cytomine.template"

----------------------------------------------------------------------------
(* Paths (os.path) *)

\* os.path.join(a, b)
Join(a, b) == a \o b

\* os.path.dirname(p)
Dirname(p) == SubSeq(p, 1, Len(p) - 1)

\* p lies strictly below directory d
IsUnder(p, d) == Len(p) > Len(d) /\ SubSeq(p, 1, Len(d)) = d

\* os.path.relpath(p, d) for p below d
Relpath(p, d) == SubSeq(p, Len(d) + 1, Len(p))

\* every proper ancestor directory of p, the root <<>> included
Ancestors(p) == { SubSeq(p, 1, n) : n \in 0..(Len(p) - 1) }

----------------------------------------------------------------------------
(* File contents: one record type for every kind of file.                  *)
(*   text     verbatim bytes of a copied file                              *)
(*   envs     KEY=VALUE lines of a dotenv file, as <<key, value>> pairs    *)
(*   env_file override descriptor: <<service, env file path>> entries      *)
(*   volumes  override descriptor: <<service, source, target>> mounts, in  *)
(*            the order they were added                                    *)
(***************************************************************************)

TextContent(t) == [text |-> t, envs |-> {}, env_file |-> {}, volumes |-> <<>>]
DotenvContent(e) == [text |-> "", envs |-> e, env_file |-> {}, volumes |-> <<>>]

\* EditableDockerCompose(version=None): an override descriptor with no entry
EditableDockerCompose == [text |-> "", envs |-> {}, env_file |-> {}, volumes |-> <<>>]

\* EditableDockerCompose.set_service_env_file(service, path)
SetServiceEnvFile(doc, service, path) ==
  [doc EXCEPT !.env_file = { e \in @ : e[1] # service } \cup { <<service, path>> }]

\* EditableDockerCompose.add_service_volume(service, "source:target")
AddServiceVolume(doc, service, source, target) ==
  [doc EXCEPT !.volumes = Append(@, <<service, source, target>>)]

\* dict.update on a mapping held as <<key, value>> pairs: the later value wins
DictUpdate(d, k, v) == { e \in d : e[1] # k } \cup { <<k, v>> }

----------------------------------------------------------------------------
(* Filesystem primitives. A filesystem value is [files, dirs]; a call      *)
(* returns [fs, result] where result is "ok" or the name of the exception. *)
(***************************************************************************)

FS(f, d) == [files |-> f, dirs |-> d]
Ok(fs) == [fs |-> fs, result |-> "ok"]
Raise(fs, e) == [fs |-> fs, result |-> e]

IsFile(fs, p) == p \in DOMAIN fs.files
IsDir(fs, p) == p \in fs.dirs
Exists(fs, p) == IsFile(fs, p) \/ IsDir(fs, p)

\* the entries directly inside directory d
Children(fs, d) ==
  { p \in (DOMAIN fs.files) \cup fs.dirs : Len(p) = Len(d) + 1 /\ IsUnder(p, d) }

\* the files anywhere below directory d, as absolute paths
FilesUnder(fs, d) == { p \in DOMAIN fs.files : IsUnder(p, d) }
DirsUnder(fs, d) == { p \in fs.dirs : IsUnder(p, d) }

\* util.list_relative_files(d): relative paths of the files below d
\* (nothing when d does not exist)
ListRelativeFiles(fs, d) == { Relpath(p, d) : p \in FilesUnder(fs, d) }

\* open(p, "w").write(content)
WriteFile(fs, p, content) ==
  IF IsDir(fs, p) THEN Raise(fs, "IsADirectoryError")
  ELSE IF ~IsDir(fs, Dirname(p)) THEN Raise(fs, "FileNotFoundError")
  ELSE Ok(FS([q \in (DOMAIN fs.files) \cup {p} |->
                 IF q = p THEN content ELSE fs.files[q]], fs.dirs))

\* shutil.copyfile(src, dst)
CopyFile(fs, src, dst) ==
  IF src = dst THEN Raise(fs, "SameFileError")
  ELSE IF ~IsFile(fs, src) THEN Raise(fs, "FileNotFoundError")
  ELSE WriteFile(fs, dst, fs.files[src])

\* os.makedirs(p), exist_ok=False
MakeDirs(fs, p) ==
  IF Exists(fs, p) THEN Raise(fs, "FileExistsError")
  ELSE IF \E a \in Ancestors(p) : IsFile(fs, a) THEN Raise(fs, "NotADirectoryError")
  ELSE Ok(FS(fs.files, fs.dirs \cup Ancestors(p) \cup {p}))

\* shutil.copytree(src, dst), dirs_exist_ok=False: os.makedirs(dst), then
\* every directory and file below src
CopyTree(fs, src, dst) ==
  LET m == MakeDirs(fs, dst)
      newFiles == { Join(dst, Relpath(p, src)) : p \in FilesUnder(fs, src) }
      newDirs == { Join(dst, Relpath(d, src)) : d \in DirsUnder(fs, src) }
  IN  IF m.result # "ok" THEN m
      ELSE Ok(FS([q \in (DOMAIN fs.files) \cup newFiles |->
                    IF q \in newFiles
                    THEN fs.files[Join(src, Relpath(q, dst))]
                    ELSE fs.files[q]],
                 m.fs.dirs \cup newDirs))

\* os.remove(p)
Remove(fs, p) ==
  IF IsDir(fs, p) THEN Raise(fs, "IsADirectoryError")
  ELSE IF ~IsFile(fs, p) THEN Raise(fs, "FileNotFoundError")
  ELSE Ok(FS([q \in (DOMAIN fs.files) \ {p} |-> fs.files[q]], fs.dirs))

\* os.rmdir(p): only an existing, empty directory other than the root goes
Rmdir(fs, p) ==
  IF ~IsDir(fs, p) \/ p = <<>> \/ Children(fs, p) # {} THEN Raise(fs, "OSError")
  ELSE Ok(FS(fs.files, fs.dirs \ {p}))

\* os.removedirs(p): rmdir(p), then every parent upward until one fails;
\* only the failure of the first rmdir is raised
RECURSIVE RemoveParents(_, _)
RemoveParents(fs, p) ==
  LET r == Rmdir(fs, p)
  IN  IF r.result # "ok" THEN fs ELSE RemoveParents(r.fs, Dirname(p))

RemoveDirs(fs, p) ==
  LET r == Rmdir(fs, p)
  IN  IF r.result # "ok" THEN r ELSE Ok(RemoveParents(r.fs, Dirname(p)))

----------------------------------------------------------------------------
(* Collaborators of ServerFolder: the environment store (env_store), the   *)
(* docker-compose reader and the dotenv writer.                            *)
(***************************************************************************)

\* str.upper() on the names the stores of this model hold
Upper(s) ==
  CASE s = "images" -> "IMAGES"
    [] s = "urls"   -> "URLS"
    [] s = "tag"    -> "TAG"
    [] s = "core"   -> "CORE"
    [] OTHER        -> s

\* EnvStore.has_server(name)
HasServer(store, name) == name \in DOMAIN store.servers

\* EnvStore.server_store(name)
ServerStore(store, name) == store.servers[name]

\* server store: has_namespace(ns) / get_namespace_envs(ns)
HasNamespace(st, ns) == ns \in DOMAIN st
GetNamespaceEnvs(st, ns) == st[ns]

\* util.write_dotenv(directory, envs, filename): writes KEY=VALUE lines
WriteDotenv(fs, directory, e, filename) ==
  WriteFile(fs, Join(directory, <<filename>>), DotenvContent(e))

\* "<service>.env"
EnvFilename(service) == service \o ".env"

\* Python's order on the relative file names the source trees of this model
\* hold ("a.conf" < "etc/app.yml" < "ims.conf"), for sorted()
SortedNames == << <<"a.conf">>, <<"etc", "app.yml">>, <<"ims.conf">> >>
NameRank(p) == CHOOSE i \in 1..Len(SortedNames) : SortedNames[i] = p

\* sorted(S) for a set S of relative file names
\* sorted gone wrong: the files in the reverse of their order
RECURSIVE Sorted_reversed(_)
Sorted_reversed(S) ==
  IF S = {} THEN <<>>
  ELSE LET m == CHOOSE x \in S : \A y \in S : NameRank(x) >= NameRank(y)
       IN  <<m>> \o Sorted_reversed(S \ {m})

RECURSIVE Sorted(_)
Sorted(S) ==
  IF S = {} THEN <<>>
  ELSE LET m == CHOOSE x \in S : \A y \in S : NameRank(x) <= NameRank(y)
       IN  <<m>> \o Sorted(S \ {m})

----------------------------------------------------------------------------
(* ServerFolder *)

\* ServerFolder._directory: the server's source directory
directory == <<"in">>

\* ServerFolder.docker_compose_path
docker_compose_path == Join(directory, <<DOCKER_COMPOSE_FILENAME>>)

\* ServerFolder.configs_path
configs_path == Join(directory, <<configs_folder>>)

\* source_files gone wrong: the listing of the whole server directory instead
\* of its configs folder
source_files_whole_directory(fs) ==
  { <<DOCKER_COMPOSE_FILENAME>> } \cup ListRelativeFiles(fs, directory)

\* ServerFolder.source_files, read from the filesystem fs
source_files(fs) ==
  { <<DOCKER_COMPOSE_FILENAME>> }
    \cup { Join(<<configs_folder>>, f) : f \in ListRelativeFiles(fs, configs_path) }

\* the env files of generated_files: one per descriptor service with a namespace
RECURSIVE ServiceEnvFiles(_)
ServiceEnvFiles(svcs) ==
  IF svcs = <<>> THEN <<>>
  ELSE LET service == Head(svcs)
           env_store == ServerStore(envs, server_name)
       IN  (IF HasNamespace(env_store, service)
            THEN << Join(<<envs_folder>>, <<EnvFilename(service)>>) >>
            ELSE <<>>) \o ServiceEnvFiles(Tail(svcs))

\* generated_files gone wrong: an env file for every descriptor service, with
\* no has_namespace test
generated_files_every_service ==
  << <<DOTENV_FILENAME>>, <<DOCKER_COMPOSE_OVERRIDE_FILENAME>> >>
    \o (IF ~HasServer(envs, server_name) THEN <<>>
        ELSE [i \in 1..Len(services) |->
                Join(<<envs_folder>>, <<EnvFilename(services[i])>>)])

\* ServerFolder.generated_files, in the order the list is built
generated_files ==
  << <<DOTENV_FILENAME>>, <<DOCKER_COMPOSE_OVERRIDE_FILENAME>> >>
    \o (IF ~HasServer(envs, server_name) THEN <<>> ELSE ServiceEnvFiles(services))

Range(s) == { s[i] : i \in DOMAIN s }

\* Deployable.target_files
target_files(fs) == source_files(fs) \cup Range(generated_files)

----------------------------------------------------------------------------
(* ServerFolder.deploy_files(target_directory). The running state of the   *)
(* call is [fs, result, override]; a step that finds result # "ok" does    *)
(* nothing, which is how the exception leaves the method.                  *)
(***************************************************************************)

Running(r, override) == [fs |-> r.fs, result |-> r.result, override |-> override]

\* the flat mapping "<NAMESPACE>_<KEY>" -> value over the global namespaces
RECURSIVE NamespaceItems(_, _, _)
NamespaceItems(acc, namespace, ns_envs) ==
  IF ns_envs = {} THEN acc
  ELSE LET item == CHOOSE e \in ns_envs : TRUE
       IN  NamespaceItems(
             DictUpdate(acc, Upper(namespace) \o "_" \o Upper(item[1]), item[2]),
             namespace, ns_envs \ {item})

RECURSIVE GlobalEnvs(_, _)
GlobalEnvs(acc, namespaces) ==
  IF namespaces = <<>> THEN acc
  ELSE GlobalEnvs(NamespaceItems(acc, Head(namespaces)[1], Head(namespaces)[2]),
                  Tail(namespaces))

\* copy of the docker-compose file
DeployCompose(fs, target_directory) ==
  CopyFile(fs, docker_compose_path, Join(target_directory, <<DOCKER_COMPOSE_FILENAME>>))

\* the .env file
DeployDotenv(st, target_directory) ==
  IF st.result # "ok" THEN st
  ELSE Running(WriteDotenv(st.fs, target_directory, GlobalEnvs({}, envs.global),
                           DOTENV_FILENAME),
               st.override)

\* the loop over the services writing envs/<service>.env
RECURSIVE WriteServiceEnvs(_, _, _)
WriteServiceEnvs(svcs, st, target_directory) ==
  IF svcs = <<>> \/ st.result # "ok" THEN st
  ELSE LET service == Head(svcs)
           env_store == ServerStore(envs, server_name)
           target_envs == Join(target_directory, <<envs_folder>>)
           env_filepath == Join(target_envs, <<EnvFilename(service)>>)
       IN  IF ~HasNamespace(env_store, service)
           THEN WriteServiceEnvs(Tail(svcs), st, target_directory)
           ELSE LET w == WriteDotenv(st.fs, target_envs,
                                     GetNamespaceEnvs(env_store, service),
                                     EnvFilename(service))
                IN  WriteServiceEnvs(
                      Tail(svcs),
                      Running(w, IF w.result = "ok"
                                 THEN SetServiceEnvFile(st.override, service,
                                        Relpath(env_filepath, target_directory))
                                 ELSE st.override),
                      target_directory)

\* DeployEnvs gone wrong: os.makedirs(target_envs, exist_ok=True)
DeployEnvs_exist_ok(st, target_directory) ==
  IF st.result # "ok" THEN st
  ELSE IF ~HasServer(envs, server_name) THEN st
  ELSE LET target_envs == Join(target_directory, <<envs_folder>>)
           m == IF IsDir(st.fs, target_envs) THEN Ok(st.fs)
                ELSE MakeDirs(st.fs, target_envs)
       IN  IF m.result # "ok" THEN Running(m, st.override)
           ELSE WriteServiceEnvs(services, Running(m, st.override), target_directory)

\* the envs/ folder and its files, when the store has this server
DeployEnvs(st, target_directory) ==
  IF st.result # "ok" THEN st
  ELSE IF ~HasServer(envs, server_name) THEN st
  ELSE LET m == MakeDirs(st.fs, Join(target_directory, <<envs_folder>>))
       IN  IF m.result # "ok" THEN Running(m, st.override)
           ELSE WriteServiceEnvs(services, Running(m, st.override), target_directory)

\* the volume entries of one service, files in sorted order
RECURSIVE AddVolumes(_, _, _)
AddVolumes(override, service, config_files) ==
  IF config_files = <<>> THEN override
  ELSE LET config_file == Head(config_files)
           source_file == Join(<<configs_folder, service>>, config_file)
           target_file == Join(<<configs_mount_point>>, config_file)
       IN  AddVolumes(AddServiceVolume(override, service, Join(<<".">>, source_file),
                                       target_file),
                      service, Tail(config_files))

\* the loop over the services adding the volumes of their config files
RECURSIVE DeployVolumes(_, _)
DeployVolumes(svcs, st) ==
  IF svcs = <<>> \/ st.result # "ok" THEN st
  ELSE LET service == Head(svcs)
           src_service_configs_path == Join(configs_path, <<service>>)
       IN  DeployVolumes(
             Tail(svcs),
             IF Exists(st.fs, src_service_configs_path)
             THEN [st EXCEPT !.override =
                     AddVolumes(@, service,
                                Sorted(ListRelativeFiles(st.fs, src_service_configs_path)))]
             ELSE st)

\* copy of the configs folder
DeployConfigs(st, target_directory) ==
  IF st.result # "ok" THEN st
  ELSE IF ~Exists(st.fs, configs_path) THEN st
  ELSE Running(CopyTree(st.fs, configs_path, Join(target_directory, <<configs_folder>>)),
               st.override)

\* override_file.write_to(target_directory, DOCKER_COMPOSE_OVERRIDE_FILENAME)
SaveOverride(st, target_directory) ==
  IF st.result # "ok" THEN st
  ELSE Running(WriteFile(st.fs,
                         Join(target_directory, <<DOCKER_COMPOSE_OVERRIDE_FILENAME>>),
                         st.override),
               st.override)

\* deploy_files gone wrong: the configs folder is not copied
deploy_files_without_configs(fs, target_directory) ==
  LET s1 == Running(DeployCompose(fs, target_directory), EditableDockerCompose)
      s2 == DeployDotenv(s1, target_directory)
      s3 == DeployEnvs(s2, target_directory)
      s4 == DeployVolumes(services, s3)
      s6 == SaveOverride(s4, target_directory)
  IN  [fs |-> s6.fs, result |-> s6.result]

\* ServerFolder.deploy_files(target_directory) on filesystem fs: [fs, result]
deploy_files(fs, target_directory) ==
  LET s1 == Running(DeployCompose(fs, target_directory), EditableDockerCompose)
      s2 == DeployDotenv(s1, target_directory)
      s3 == DeployEnvs(s2, target_directory)
      s4 == DeployVolumes(services, s3)
      s5 == DeployConfigs(s4, target_directory)
      s6 == SaveOverride(s5, target_directory)
  IN  [fs |-> s6.fs, result |-> s6.result]

----------------------------------------------------------------------------
(* ServerFolder.clean_generated_files(target_directory) *)

\* the loop over generated_files: remove the file, then its emptied parents
RECURSIVE RemoveGenerated(_, _, _)
RemoveGenerated(to_remove, fs, target_directory) ==
  IF to_remove = <<>> THEN Ok(fs)
  ELSE LET file_path == Join(target_directory, Head(to_remove))
       IN  IF ~Exists(fs, file_path)
           THEN RemoveGenerated(Tail(to_remove), fs, target_directory)
           ELSE LET r == Remove(fs, file_path)
                IN  IF r.result # "ok" THEN r
                    ELSE RemoveGenerated(Tail(to_remove),
                                         RemoveDirs(r.fs, Dirname(file_path)).fs,
                                         target_directory)

\* the "double-check 'envs' folder" step
RemoveEnvsFolder(r) ==
  LET envs_dir == Join(directory, <<envs_folder>>)
  IN  IF r.result # "ok" THEN r
      ELSE IF IsDir(r.fs, envs_dir) THEN Rmdir(r.fs, envs_dir)
      ELSE r

\* clean_generated_files gone wrong: the generated files are looked up in the
\* server's own directory instead of the target
clean_generated_files_in_directory(fs, target_directory) ==
  RemoveEnvsFolder(RemoveGenerated(generated_files, fs, directory))

\* ServerFolder.clean_generated_files(target_directory) on fs: [fs, result]
clean_generated_files(fs, target_directory) ==
  RemoveEnvsFolder(RemoveGenerated(generated_files, fs, target_directory))

----------------------------------------------------------------------------
(* The ServerFolder specification: a server folder over some source tree,  *)
(* and up to MaxOps calls of deploy_files / clean_generated_files.         *)
(***************************************************************************)

\* the target directories of the calls: the source directory itself
\* (in place) and a directory of its own
OutDir == <<"tmp", "out">>
Targets == { directory, OutDir }

EmptyMap == [p \in {} |-> TextContent("")]
FileMap(S, content) == [p \in S |-> content]

\* the directories a tree of files and (possibly empty) directories needs
TreeDirs(fileSet, dirSet) ==
  dirSet \cup UNION { Ancestors(p) : p \in fileSet \cup dirSet }

\* source trees: the content of configs/
ConfigTrees ==
  { [files |-> {}, dirs |-> {}],
    [files |-> {}, dirs |-> { configs_path }],
    [files |-> { Join(configs_path, <<"core", "etc", "app.yml">>) }, dirs |-> {}],
    [files |-> { Join(configs_path, <<"core", "etc", "app.yml">>),
                 Join(configs_path, <<"core", "a.conf">>),
                 Join(configs_path, <<"ims", "ims.conf">>) }, dirs |-> {}],
    [files |-> { Join(configs_path, <<"core.env">>),
                 Join(configs_path, <<"core", "a.conf">>) }, dirs |-> {}] }

\* source trees: what an earlier run left in the source directory
LeftoverTrees ==
  { FS(EmptyMap, {}),
    FS(EmptyMap, { Join(directory, <<envs_folder>>) }),
    FS(FileMap({ Join(directory, <<DOTENV_FILENAME>>),
                 Join(directory, <<envs_folder, "core.env">>) },
               DotenvContent({ <<"OLD", "1">> })), {}) }

\* the target directory before the first call
TargetTrees ==
  { FS(EmptyMap, { OutDir }),
    FS(FileMap({ Join(OutDir, <<DOTENV_FILENAME>>) }, DotenvContent({ <<"OLD", "1">> })),
       {}),
    FS(FileMap({ Join(OutDir, <<envs_folder, "keep.txt">>),
                 Join(OutDir, <<DOCKER_COMPOSE_FILENAME>>) }, TextContent("keep")),
       {}) }

ServerNames == { SERVER_DEFAULT, "server-core" }

\* the descriptor's services, in the descriptor's order
ServiceLists == { <<"core">>, <<"core", "ims">>, <<"ims", "core">> }

\* the variables of a namespace
NamespaceVars(ns) == { <<Upper(ns) \o "_VAR1", "value1">> }

GlobalStores ==
  { <<>>,
    << <<"images", { <<"tag", "v1">>, <<"core", "cm/core">> }>>,
       <<"urls", { <<"core", "http://core">> }>> >> }

\* the stores: no server entry, or an entry for "server-core" with any of the
\* namespaces core and ims
Stores ==
  { [global |-> g, servers |-> [n \in {} |-> EmptyMap]] : g \in GlobalStores }
    \cup { [global |-> g,
            servers |-> [n \in {"server-core"} |-> [ns \in N |-> NamespaceVars(ns)]]] :
           g \in GlobalStores, N \in SUBSET {"core", "ims"} }

FolderIdle ==
  /\ pc = "idle"
  /\ root = [files |-> {}, dirs |-> {}, working |-> {}, template |-> {}]
  /\ args = [ignored_dirs |-> {}, update_allow_list |-> <<>>]
  /\ merge_config = [servers |-> {}, merge_policy |-> "none"]
  /\ subdirs = {}
  /\ single_server = FALSE
  /\ server_folders = [n \in {} |-> <<>>]
  /\ error = "none"

Init ==
  /\ server_name \in ServerNames
  /\ services \in ServiceLists
  /\ envs \in Stores
  /\ \E c \in ConfigTrees, l \in LeftoverTrees, t \in TargetTrees :
       LET fileSet == c.files \cup DOMAIN l.files \cup DOMAIN t.files
       IN  /\ files = (docker_compose_path :> TextContent("compose"))
                        @@ [p \in c.files |-> TextContent(p[Len(p)])]
                        @@ l.files @@ t.files
           /\ dirs = TreeDirs(fileSet \cup {docker_compose_path},
                              c.dirs \cup l.dirs \cup t.dirs)
  /\ history = <<>>
  /\ prev = FS(files, dirs)
  /\ fs0 = FS(files, dirs)
  /\ FolderIdle

\* what a call leaves: the filesystem, and the call recorded in history
Returned(op, target_directory, r) ==
  /\ files' = r.fs.files
  /\ dirs' = r.fs.dirs
  /\ history' = Append(history,
                       [op |-> op, target |-> target_directory, result |-> r.result])
  /\ prev' = FS(files, dirs)

DeployFiles(target_directory) ==
  /\ Len(history) < MaxOps
  /\ Returned("deploy", target_directory,
              deploy_files(FS(files, dirs), target_directory))
  /\ UNCHANGED <<server_name, services, envs, fs0, folderVars>>

CleanGeneratedFiles(target_directory) ==
  /\ Len(history) < MaxOps
  /\ Returned("clean", target_directory,
              clean_generated_files(FS(files, dirs), target_directory))
  /\ UNCHANGED <<server_name, services, envs, fs0, folderVars>>

Next ==
  \/ \E target_directory \in Targets : DeployFiles(target_directory)
  \/ \E target_directory \in Targets : CleanGeneratedFiles(target_directory)

Spec == Init /\ [][Next]_vars

----------------------------------------------------------------------------
(* DeploymentFolder.__init__, step by step. root is what the constructor   *)
(* finds in the install directory: the names of its files and of its       *)
(* subdirectories, and the servers its two configuration files declare.    *)
(***************************************************************************)

\* ConfigFile.merge: the merged configuration declares the servers of both
MergedServers(working, template) == working \cup template

\* the constructor has returned or raised
Constructed == pc \in { "done", "raised" }

RaiseError(e) ==
  /\ pc' = "raised"
  /\ error' = e

\* CheckConfigFiles gone wrong: the test for the two configuration files is missing
CheckConfigFiles_no_check ==
  /\ pc = "start"
  /\ pc' = "merge"
  /\ UNCHANGED <<root, args, merge_config, subdirs, single_server, server_folders,
                 error, serverVars>>

\* neither cytomine.yml nor cytomine.template: FileNotFoundError
CheckConfigFiles ==
  /\ pc = "start"
  /\ IF working_config_filename \notin root.files
        /\ template_config_filename \notin root.files
     THEN RaiseError("FileNotFoundError")
     ELSE pc' = "merge" /\ error' = error
  /\ UNCHANGED <<root, args, merge_config, subdirs, single_server, server_folders,
                 serverVars>>

\* merge .template and .yml under the policy the allow list selects
MergeConfigs ==
  /\ pc = "merge"
  /\ merge_config' =
       [servers |-> MergedServers(root.working, root.template),
        merge_policy |-> IF Len(args.update_allow_list) > 0
                         THEN "ALLOW_LIST" ELSE "PRESERVE"]
  /\ pc' = "walk"
  /\ UNCHANGED <<root, args, subdirs, single_server, server_folders, error,
                 serverVars>>

\* os.walk of the root: the subdirectories kept, and the topology
WalkRoot ==
  /\ pc = "walk"
  /\ server_folders' = [n \in {} |-> <<>>]
  /\ subdirs' = root.dirs \ args.ignored_dirs
  /\ single_server' = (DOCKER_COMPOSE_FILENAME \in root.files)
  /\ pc' = "check"
  /\ UNCHANGED <<root, args, merge_config, error, serverVars>>

\* CheckServers gone wrong: no check of the servers against the topology
CheckServers_no_validation ==
  /\ pc = "check"
  /\ pc' = "build"
  /\ UNCHANGED <<root, args, merge_config, subdirs, single_server, server_folders,
                 error, serverVars>>

\* checking server configuration (single or multi-server?)
CheckServers ==
  /\ pc = "check"
  /\ LET nb_servers_in_envs == Cardinality(merge_config.servers)
     IN  IF ~single_server
         THEN RaiseError("InvalidServerConfigurationError")
         ELSE IF single_server /\ nb_servers_in_envs > 1
         THEN RaiseError("InvalidServerConfigurationError")
         ELSE IF ~single_server /\ ~(merge_config.servers \subseteq subdirs)
         THEN RaiseError("InvalidServerConfigurationError")
         ELSE pc' = "build" /\ error' = error
  /\ UNCHANGED <<root, args, merge_config, subdirs, single_server, server_folders,
                 serverVars>>

\* one ServerFolder for the install directory, or one per subdirectory
BuildServerFolders ==
  /\ pc = "build"
  /\ server_folders' =
       IF single_server
       THEN (SERVER_DEFAULT :> directory)
       ELSE [subdir \in subdirs |-> Join(directory, <<subdir>>)]
  /\ pc' = "done"
  /\ UNCHANGED <<root, args, merge_config, subdirs, single_server, error, serverVars>>

ConfigServerNames == { SERVER_DEFAULT, "server-core", "server-ims" }
RootDirNames == { "server-core", "server-ims", "backup" }
RootFileNames ==
  { working_config_filename, template_config_filename, DOCKER_COMPOSE_FILENAME }

ServerIdle ==
  /\ files = (docker_compose_path :> TextContent("compose"))
  /\ dirs = { <<>>, directory }
  /\ server_name = SERVER_DEFAULT
  /\ services = <<>>
  /\ envs = [global |-> <<>>, servers |-> [n \in {} |-> EmptyMap]]
  /\ history = <<>>
  /\ prev = FS(files, dirs)
  /\ fs0 = FS(files, dirs)

InitDeploymentFolder ==
  /\ pc = "start"
  /\ \E f \in SUBSET RootFileNames, d \in SUBSET RootDirNames,
        w \in SUBSET ConfigServerNames, t \in { {}, {"server-ims"}, {SERVER_DEFAULT} } :
       /\ (working_config_filename \notin f => w = {})
       /\ (template_config_filename \notin f => t = {})
       /\ root = [files |-> f, dirs |-> d, working |-> w, template |-> t]
  /\ args \in [ignored_dirs : { {}, {"backup"} }, update_allow_list : { <<>>, <<"KEY">> }]
  /\ merge_config = [servers |-> {}, merge_policy |-> "none"]
  /\ subdirs = {}
  /\ single_server = FALSE
  /\ server_folders = [n \in {} |-> <<>>]
  /\ error = "none"
  /\ ServerIdle

NextDeploymentFolder ==
  \/ CheckConfigFiles
  \/ MergeConfigs
  \/ WalkRoot
  \/ CheckServers
  \/ BuildServerFolders

SpecDeploymentFolder == InitDeploymentFolder /\ [][NextDeploymentFolder]_vars

----------------------------------------------------------------------------
(* Properties of ServerFolder (specification Spec) *)

Now == FS(files, dirs)
Last == history[Len(history)]

\* nothing at all below directory d of filesystem fs
IsEmptyDir(fs, d) == IsDir(fs, d) /\ Children(fs, d) = {}

\* the store has an entry for this server, and that entry has namespace ns
ServerHasNamespace(ns) ==
  /\ server_name \in DOMAIN envs.servers
  /\ ns \in DOMAIN envs.servers[server_name]

\* the last two calls were deploy_files(T), which returned, then
\* clean_generated_files(T), on a target T that was empty before them
DeployedThenCleaned(T) ==
  /\ Len(history) = 2
  /\ history[1] = [op |-> "deploy", target |-> T, result |-> "ok"]
  /\ history[2].op = "clean" /\ history[2].target = T
  /\ IsEmptyDir(fs0, T)

\* C1: deploy_files(T) on an empty target T followed by clean_generated_files(T)
\* leaves exactly the source files under T: no generated file remains and no
\* source file is missing.
C1_DeployCleanRoundTrip ==
  \A T \in Targets :
    DeployedThenCleaned(T) => ListRelativeFiles(Now, T) = source_files(Now)

\* C1 witness: a round trip that had env files, an override and configs to handle
C1_Witness ==
  /\ DeployedThenCleaned(OutDir)
  /\ Len(generated_files) > 2
  /\ Cardinality(source_files(Now)) > 1
  /\ \A g \in Range(generated_files) : IsFile(prev, Join(OutDir, g))

\* C2: source_files and generated_files have no path in common.
C2_SourceGeneratedDisjoint ==
  source_files(Now) \cap Range(generated_files) = {}

\* C2 witness: a server with config files and env files, its files listed by a call
C2_Witness ==
  /\ history # <<>>
  /\ Cardinality(source_files(Now)) > 1
  /\ Len(generated_files) > 2

\* the last call was a deploy_files(T) that returned, on a target empty before it
DeployedOnEmpty(T) ==
  /\ history # <<>>
  /\ Last = [op |-> "deploy", target |-> T, result |-> "ok"]
  /\ IsEmptyDir(prev, T)

\* C3: after deploy_files(T) returns on an empty target T, the files under T are
\* exactly target_files = source_files \cup generated_files.
C3_DeployMakesTargetFiles ==
  \A T \in Targets :
    DeployedOnEmpty(T) =>
      ListRelativeFiles(Now, T) = source_files(Now) \cup Range(generated_files)

\* C3 witness: such a deploy that wrote env files and copied config files
C3_Witness ==
  /\ DeployedOnEmpty(OutDir)
  /\ Len(generated_files) > 2
  /\ Cardinality(source_files(Now)) > 2

AllServiceNames == { "core", "ims" }

\* C5: generated_files holds .env and docker-compose.override.yml, and
\* envs/<service>.env exactly for the descriptor services that have a namespace
\* in the store's entry for this server; nothing else.
C5_GeneratedFiles ==
  LET G == Range(generated_files)
      fixed == { <<".env">>, <<"docker-compose.override.yml">> }
  IN  /\ fixed \subseteq G
      /\ \A svc \in AllServiceNames :
           (<<"envs", svc \o ".env">> \in G)
             <=> (svc \in Range(services) /\ ServerHasNamespace(svc))
      /\ G \subseteq fixed \cup { <<"envs", svc \o ".env">> : svc \in AllServiceNames }

\* C5 witness: a call listed the generated files of a server that has a service
\* without namespace and a namespace without service
C5_Witness ==
  /\ history # <<>> /\ Last.op = "clean"
  /\ services = <<"core">>
  /\ ServerHasNamespace("ims")
  /\ ~ServerHasNamespace("core")

\* the source tree: what lies at and below the server's source directory
SourceTree(fs) ==
  [files |-> [p \in FilesUnder(fs, directory) |-> fs.files[p]],
   dirs |-> { d \in fs.dirs : d = directory \/ IsUnder(d, directory) }]

\* no call so far had the source directory as its target
OnlyOtherTargets == \A i \in DOMAIN history : history[i].target # directory

\* C10 (as claimed): calls whose target is not the source directory leave the
\* source tree as it was.
C10_SourceTreeUntouched ==
  OnlyOtherTargets => SourceTree(Now) = SourceTree(fs0)


\* the second of two calls was a deploy_files(T) following a deploy_files(T)
\* that returned
DeployedTwice(T) ==
  /\ Len(history) = 2
  /\ history[1] = [op |-> "deploy", target |-> T, result |-> "ok"]
  /\ history[2].op = "deploy" /\ history[2].target = T

\* the .env, envs/<service>.env and YAML files deploy_files writes under T
DeployedPaths(T) ==
  { Join(T, <<".env">>), Join(T, <<"docker-compose.yml">>),
    Join(T, <<"docker-compose.override.yml">>) }
    \cup { Join(T, <<"envs", svc \o ".env">>) : svc \in AllServiceNames }

\* the second deploy left those files as the first deploy had left them
SameDeployedContent(T) ==
  \A p \in DeployedPaths(T) :
    /\ IsFile(Now, p) <=> IsFile(prev, p)
    /\ IsFile(Now, p) => files[p] = prev.files[p]

\* C4 (as claimed): a second deploy_files(T) on the target of a first one
\* returns and leaves the same .env, envs/<service>.env and YAML contents.
C4_SecondDeploySucceeds ==
  \A T \in Targets :
    DeployedTwice(T) => history[2].result = "ok" /\ SameDeployedContent(T)

\* C4 (amended): a second deploy_files(T) leaves the same .env,
\* envs/<service>.env and YAML contents as the first, but it returns only when
\* the store has no entry for the server and the source has no configs folder;
\* otherwise it raises FileExistsError.
C4_SecondDeploySameContent ==
  \A T \in Targets :
    DeployedTwice(T) =>
      /\ SameDeployedContent(T)
      /\ history[2].result \in { "ok", "FileExistsError" }
      /\ history[2].result = "ok"
           <=> (server_name \notin DOMAIN envs.servers /\ ~Exists(Now, configs_path))

\* C4 witness: a second deploy that FileExistsError ended, over env files and
\* an override descriptor with volumes
C4_Witness ==
  /\ DeployedTwice(OutDir)
  /\ history[2].result = "FileExistsError"
  /\ IsFile(Now, Join(OutDir, <<"envs", "core.env">>))
  /\ Len(files[Join(OutDir, <<"docker-compose.override.yml">>)].volumes) > 1

----------------------------------------------------------------------------
(* Properties of DeploymentFolder.__init__ (specification                  *)
(* SpecDeploymentFolder)                                                   *)
(***************************************************************************)

NoServerFolder == DOMAIN server_folders = {}
Merged == merge_config.merge_policy # "none"
HasRootCompose == "docker-compose.yml" \in root.files

\* C6 (as claimed): without docker-compose.yml in the root and with every
\* declared server matching a subdirectory, construction succeeds in
\* multi-server mode with one ServerFolder per kept subdirectory.
C6_MultiServerConstructed ==
  (/\ Constructed
   /\ ~HasRootCompose
   /\ Merged
   /\ merge_config.servers \subseteq (root.dirs \ args.ignored_dirs))
  => /\ pc = "done"
     /\ ~single_server
     /\ server_folders =
          [d \in root.dirs \ args.ignored_dirs |-> Join(directory, <<d>>)]

\* C7: with docker-compose.yml in the root, more than one declared server
\* raises InvalidServerConfigurationError; at most one gives the single
\* ServerFolder "default", rooted at the install directory.
C7_SingleServer ==
  (Constructed /\ HasRootCompose /\ Merged)
  => IF Cardinality(merge_config.servers) > 1
     THEN pc = "raised" /\ error = "InvalidServerConfigurationError" /\ NoServerFolder
     ELSE /\ pc = "done"
          /\ single_server
          /\ DOMAIN server_folders = { "default" }
          /\ server_folders["default"] = directory

\* C7 witness: a single-server root whose merged configuration declares two servers
C7_Witness ==
  /\ pc = "raised"
  /\ HasRootCompose
  /\ Cardinality(merge_config.servers) = 2

\* C8: without docker-compose.yml in the root, a declared server with no
\* matching subdirectory raises InvalidServerConfigurationError.
C8_MissingServerFolderRaises ==
  (/\ Constructed
   /\ ~HasRootCompose
   /\ Merged
   /\ ~(merge_config.servers \subseteq root.dirs))
  => pc = "raised" /\ error = "InvalidServerConfigurationError"

\* C8 witness: a multi-server root with a folder for one declared server only
C8_Witness ==
  /\ pc = "raised"
  /\ ~HasRootCompose
  /\ "server-core" \in root.dirs
  /\ merge_config.servers = { "server-core", "server-ims" }
  /\ "server-ims" \notin root.dirs

\* C9: without cytomine.yml and cytomine.template construction fails before any
\* merge and before any ServerFolder; and whenever construction raises, no
\* ServerFolder has been built.
C9_FailFast ==
  /\ ("cytomine.yml" \notin root.files /\ "cytomine.template" \notin root.files)
       => /\ pc \in { "start", "raised" }
          /\ pc = "raised" => error = "FileNotFoundError"
          /\ ~Merged
          /\ NoServerFolder
  /\ pc = "raised" => (error # "none" /\ NoServerFolder)

\* C9 witness: construction over a root with neither file has raised
C9_Witness ==
  /\ pc = "raised"
  /\ error = "FileNotFoundError"
  /\ "cytomine.yml" \notin root.files /\ "cytomine.template" \notin root.files
  /\ root.dirs # {}


----------------------------------------------------------------------------
(* DeploymentFolder.deploy_files / clean_generated_files, on a              *)
(* DeploymentFolder the constructor has returned (specification            *)
(* SpecDeployment). The install directory is `directory`; its ServerFolder  *)
(* in single-server mode is the one the ServerFolder operators model        *)
(* (server "default", rooted at `directory`). A call is recorded in         *)
(* history with `passed`: server name -> the directory handed to that       *)
(* server's method.                                                        *)
(***************************************************************************)

\* InstallerConfig.filename
installer_config_filename == "installer_config.yml"

NoneCalled == [n \in {} |-> <<>>]

\* yaml.dump(self._merge_config.export_dict()): the servers the merged
\* configuration declares
MergedConfigContent ==
  [text |-> "", envs |-> { <<srv, "server">> : srv \in merge_config.servers },
   env_file |-> {}, volumes |-> <<>>]

FolderRunning(r, passed) == [fs |-> r.fs, result |-> r.result, passed |-> passed]

\* write config (cytomine.yml)
WriteMergedConfig(fs, target_directory) ==
  WriteFile(fs, Join(target_directory, <<working_config_filename>>), MergedConfigContent)

\* copy of the template and of the installer configuration, when they exist
RECURSIVE CopyAncillaryFiles(_, _, _)
CopyAncillaryFiles(filenames, r, target_directory) ==
  IF filenames = <<>> \/ r.result # "ok" THEN r
  ELSE LET source_filepath == Join(directory, <<Head(filenames)>>)
           target_path == Join(target_directory, <<Head(filenames)>>)
       IN  CopyAncillaryFiles(
             Tail(filenames),
             IF IsFile(r.fs, source_filepath)
             THEN CopyFile(r.fs, source_filepath, target_path)
             ELSE r,
             target_directory)

\* the directory DeploymentFolder.deploy_files hands to a server folder
ServerTargetDir(name, target_directory) ==
  IF single_server THEN target_directory ELSE Join(target_directory, <<name>>)

\* write server folders
RECURSIVE DeployServerFolders(_, _, _)
DeployServerFolders(names, st, target_directory) ==
  IF names = {} \/ st.result # "ok" THEN st
  ELSE LET name == CHOOSE n \in names : TRUE
           server_target_dir == ServerTargetDir(name, target_directory)
           m == IF single_server THEN Ok(st.fs) ELSE MakeDirs(st.fs, server_target_dir)
       IN  DeployServerFolders(
             names \ {name},
             IF m.result # "ok" THEN FolderRunning(m, st.passed)
             ELSE FolderRunning(deploy_files(m.fs, server_target_dir),
                                (name :> server_target_dir) @@ st.passed),
             target_directory)

\* DeploymentFolder.deploy_files(target_directory): [fs, result, passed]
folder_deploy_files(fs, target_directory) ==
  LET w == WriteMergedConfig(fs, target_directory)
      c == CopyAncillaryFiles(<<template_config_filename, installer_config_filename>>,
                              w, target_directory)
  IN  DeployServerFolders(DOMAIN server_folders, FolderRunning(c, NoneCalled),
                          target_directory)

\* clean_generated_files gone wrong: always the subdirectory named after the server
ServerCleanDir_subdirectory(name, target_directory) ==
  Join(target_directory, <<name>>)

\* the directory DeploymentFolder.clean_generated_files hands to a server folder
ServerCleanDir(name, target_directory) == target_directory

\* the loop over the server folders of DeploymentFolder.clean_generated_files
RECURSIVE CleanServerFolders(_, _, _)
CleanServerFolders(names, st, target_directory) ==
  IF names = {} \/ st.result # "ok" THEN st
  ELSE LET name == CHOOSE n \in names : TRUE
           server_dir == ServerCleanDir(name, target_directory)
       IN  CleanServerFolders(
             names \ {name},
             FolderRunning(clean_generated_files(st.fs, server_dir),
                           (name :> server_dir) @@ st.passed),
             target_directory)

\* DeploymentFolder.clean_generated_files(target_directory): [fs, result, passed]
folder_clean_generated_files(fs, target_directory) ==
  CleanServerFolders(DOMAIN server_folders, FolderRunning(Ok(fs), NoneCalled),
                     target_directory)

FolderReturned(op, target_directory, r) ==
  /\ files' = r.fs.files
  /\ dirs' = r.fs.dirs
  /\ history' = Append(history, [op |-> op, target |-> target_directory,
                                 result |-> r.result, passed |-> r.passed])
  /\ prev' = FS(files, dirs)
  /\ UNCHANGED <<server_name, services, envs, fs0, folderVars>>

FolderDeployFiles(target_directory) ==
  /\ pc = "done"
  /\ Len(history) < MaxOps
  /\ FolderReturned("deploy", target_directory,
                    folder_deploy_files(FS(files, dirs), target_directory))

FolderCleanGeneratedFiles(target_directory) ==
  /\ pc = "done"
  /\ Len(history) < MaxOps
  /\ FolderReturned("clean", target_directory,
                    folder_clean_generated_files(FS(files, dirs), target_directory))

\* the merged store: an entry with namespace core for every declared server
MergedStore(g, declared) ==
  [global |-> g, servers |-> [n \in declared |-> [ns \in {"core"} |-> NamespaceVars(ns)]]]

InitDeployment ==
  /\ pc = "start"
  /\ \E f \in SUBSET (RootFileNames \cup {installer_config_filename}),
        d \in SUBSET {"server-core", "backup"},
        w \in SUBSET {SERVER_DEFAULT, "server-core"},
        t \in { {}, {SERVER_DEFAULT} },
        c \in ConfigTrees :
       /\ (working_config_filename \notin f => w = {})
       /\ (template_config_filename \notin f => t = {})
       /\ root = [files |-> f, dirs |-> d, working |-> w, template |-> t]
       /\ files = [p \in { Join(directory, <<n>>) : n \in f } |-> TextContent(p[Len(p)])]
                    @@ [p \in c.files |-> TextContent(p[Len(p)])]
       /\ dirs = TreeDirs({ Join(directory, <<n>>) : n \in f } \cup c.files,
                          { directory, OutDir } \cup c.dirs
                            \cup { Join(directory, <<n>>) : n \in d })
       /\ \E g \in GlobalStores : envs = MergedStore(g, MergedServers(w, t))
  /\ args \in [ignored_dirs : { {}, {"backup"} }, update_allow_list : { <<>> }]
  /\ merge_config = [servers |-> {}, merge_policy |-> "none"]
  /\ subdirs = {}
  /\ single_server = FALSE
  /\ server_folders = [n \in {} |-> <<>>]
  /\ error = "none"
  /\ server_name = SERVER_DEFAULT
  /\ services \in { <<"core">>, <<"core", "ims">> }
  /\ history = <<>>
  /\ prev = FS(files, dirs)
  /\ fs0 = FS(files, dirs)

NextDeployment ==
  \/ CheckConfigFiles
  \/ MergeConfigs
  \/ WalkRoot
  \/ CheckServers
  \/ BuildServerFolders
  \/ \E target_directory \in Targets : FolderDeployFiles(target_directory)
  \/ \E target_directory \in Targets : FolderCleanGeneratedFiles(target_directory)

SpecDeployment == InitDeployment /\ [][NextDeployment]_vars

----------------------------------------------------------------------------
(* More properties of ServerFolder (specification Spec) *)

\* the last call was a deploy_files(T) that returned
Deployed(T) ==
  /\ history # <<>>
  /\ Last = [op |-> "deploy", target |-> T, result |-> "ok"]

\* the override descriptor deploy_files wrote under T
OverrideOf(T) == files[Join(T, <<"docker-compose.override.yml">>)]

\* the files below the source configs/<service>/, relative to it
ServiceConfigFiles(svc) ==
  { Relpath(p, <<"in", "configs", svc>>) :
      p \in { q \in DOMAIN files : IsUnder(q, <<"in", "configs", svc>>) } }

\* C12: the override descriptor deploy_files writes has the env-file entry
\* envs/<service>.env exactly for the descriptor services with a namespace in
\* the server's store, and the volume entry
\* ./configs/<service>/<f>:<configs_mount_point>/<f> exactly once for every file
\* f below the source configs/<service>/ of a descriptor service, the volumes
\* of a service in lexicographic order of f; nothing for other services.
C12_OverrideDescriptor ==
  \A T \in Targets :
    Deployed(T) =>
      LET doc == OverrideOf(T)
          vol == doc.volumes
      IN  /\ doc.env_file =
               { <<svc, <<"envs", svc \o ".env">>>> :
                   svc \in { x \in Range(services) : ServerHasNamespace(x) } }
          /\ Range(vol) =
               UNION { { <<svc, <<".", "configs", svc>> \o f, <<"/cm_configs">> \o f>> :
                           f \in ServiceConfigFiles(svc) } :
                       svc \in Range(services) }
          /\ \A i, j \in DOMAIN vol :
               (i < j /\ vol[i][1] = vol[j][1])
                 => NameRank(Relpath(vol[i][3], <<"/cm_configs">>))
                      < NameRank(Relpath(vol[j][3], <<"/cm_configs">>))

\* C12 witness: a deploy that wrote an env-file entry and two volumes for core,
\* none for ims, which has config files but is no service of the descriptor
C12_Witness ==
  /\ Deployed(OutDir)
  /\ services = <<"core">>
  /\ ServerHasNamespace("core")
  /\ Cardinality(ServiceConfigFiles("core")) = 2
  /\ ServiceConfigFiles("ims") # {}
  /\ Len(OverrideOf(OutDir).volumes) = 2
  /\ OverrideOf(OutDir).env_file # {}


\* the last call was a clean_generated_files(T)
Cleaned(T) ==
  /\ history # <<>>
  /\ Last.op = "clean" /\ Last.target = T

\* the files below T/envs that are no generated file of the server
StrayEnvFiles(fs, T) ==
  { p \in DOMAIN fs.files :
      /\ IsUnder(p, Join(T, <<"envs">>))
      /\ Relpath(p, T) \notin Range(generated_files) }

\* C13 (as claimed): clean_generated_files removes the envs/ directory only when
\* it exists and is empty; when envs/ holds files that are not generated files,
\* the call returns without an error and leaves the directory and those files.
C13_EnvsFolderOnlyWhenEmpty ==
  \A T \in Targets :
    Cleaned(T) =>
      LET envs_dir == Join(T, <<"envs">>)
      IN  /\ (IsDir(prev, envs_dir) /\ ~IsDir(Now, envs_dir))
               => StrayEnvFiles(prev, T) = {}
          /\ (IsDir(prev, envs_dir) /\ StrayEnvFiles(prev, T) # {})
               => /\ Last.result = "ok"
                  /\ IsDir(Now, envs_dir)
                  /\ \A p \in StrayEnvFiles(prev, T) :
                       IsFile(Now, p) /\ files[p] = prev.files[p]


\* the directories below directory d, relative to d
ListRelativeDirs(fs, d) == { Relpath(p, d) : p \in DirsUnder(fs, d) }

\* C14 (as claimed): after deploy_files(T) on an empty target T other than the
\* source directory and then clean_generated_files(T), T/envs does not exist,
\* also when deploy created it and wrote no file in it, and the tree under T is
\* docker-compose.yml plus the source's configs/ tree.
C14_NoGeneratedDirectoryLeft ==
  DeployedThenCleaned(OutDir) =>
    /\ ~IsDir(Now, Join(OutDir, <<"envs">>))
    /\ ListRelativeFiles(Now, OutDir)
         = { <<"docker-compose.yml">> } \cup
           { p \in ListRelativeFiles(Now, <<"in">>) : p[1] = "configs" }
    /\ ListRelativeDirs(Now, OutDir)
         = { p \in ListRelativeDirs(Now, <<"in">>) : p[1] = "configs" }

\* the second of two calls was a clean_generated_files(T) following a
\* clean_generated_files(T) that returned
CleanedTwice(T) ==
  /\ Len(history) = 2
  /\ history[1] = [op |-> "clean", target |-> T, result |-> "ok"]
  /\ history[2].op = "clean" /\ history[2].target = T

\* no generated path under T is anything but a file or missing
OnlyGeneratedFilesOrMissing(fs, T) ==
  \A g \in Range(generated_files) : ~IsDir(fs, Join(T, g))

\* the first half of C15: clean; clean has the outcome of clean
CleanTwiceSame ==
  \A T \in Targets :
    CleanedTwice(T) =>
      /\ history[2].result = "ok"
      /\ ListRelativeFiles(Now, T) = ListRelativeFiles(prev, T)

\* C15 (as claimed): a second clean_generated_files(T) right after one that
\* returned raises nothing and leaves the files under T as they were; and on a
\* target that holds some or none of the generated files the call returns,
\* skipping the missing ones.
C15_CleanReentrant ==
  /\ CleanTwiceSame
  /\ \A T \in Targets :
       (Cleaned(T) /\ OnlyGeneratedFilesOrMissing(prev, T)) => Last.result = "ok"

\* C16 (as claimed): clean_generated_files(T) on an existing directory T removes
\* neither T nor any directory above T.
C16_TargetDirectoryKept ==
  \A T \in Targets :
    (Cleaned(T) /\ IsDir(prev, T)) =>
      /\ IsDir(Now, T)
      /\ \A a \in Ancestors(T) : IsDir(Now, a)

====
